---- MODULE Spec2Model ----
(***************************************************************************)
(* Model of the atlas acoustic fingerprinter (owenbrooks/atlas).           *)
(*                                                                         *)
(*   audio_ops.rs  read_wav_to_fft   samples -> spectrogram (shape only)   *)
(*   image_ops.rs  max_filter / find_equal   spectrogram -> peaks          *)
(*   hash.rs       fingerprint       peaks -> HashMap<u32, PairRecord>     *)
(*   database.rs   add_track / connect   the tracks and fingerprints tables*)
(*   main.rs       add_file / match_sample   the two commands              *)
(*                                                                         *)
(* f32 parameters are modelled as exact non-negative rationals <<n, d>>,   *)
(* u32 hashes as pairs <<hi, lo>> of 16-bit halves (value hi * 2^16 + lo), *)
(* so that the arithmetic modulo 2^32 of the FNV hasher is exact.          *)
(***************************************************************************)
EXTENDS Integers, Sequences, FiniteSets, Bags, TLC

VARIABLES
    tracks,        \* table tracks: set of [id, title]
    fingerprints,  \* table fingerprints: bag of [hash, track_time, track_id]
    outcome,       \* what the last command (add_file / match_sample) did
    added,         \* history: title -> pair_records of its last committed add
    stft,          \* call frame of read_wav_to_fft
    picker,        \* call frame of the peak picker
    hasher         \* call frame of hash::fingerprint

vars == <<tracks, fingerprints, outcome, added, stft, picker, hasher>>

Idle == [pc |-> "idle"]

----------------------------------------------------------------------------
(* Bounds of the model *)

HashRows == 3         \* peak grid of the hasher runs: rows 0..HashRows-1
HashCols == 2         \*                               cols 0..HashCols-1
MaxPeaks == 4         \* peaks per hasher run
MaxCells == 6         \* spectrograms of the peak picker runs: rows * cols <= MaxCells
MaxVal == 1           \* their cell values are 0..MaxVal
MaxKernel == 4        \* kernel_size in 1..MaxKernel
MaxSamples == 7       \* interleaved samples in a file, 0..MaxSamples
MaxRate == 30         \* sample rate of a file, 0..MaxRate

----------------------------------------------------------------------------
(* Exact arithmetic standing for the f32 expressions of the code *)

Min(a, b) == IF a < b THEN a ELSE b
Max(a, b) == IF a > b THEN a ELSE b
AbsDiff(a, b) == IF a > b THEN a - b ELSE b - a

RatDiv(a, b) == <<a[1] * b[2], a[2] * b[1]>>
RatAdd(a, b) == <<a[1] * b[2] + b[1] * a[2], a[2] * b[2]>>
RatMul(a, b) == <<a[1] * b[1], a[2] * b[2]>>
\* `x as usize` of a non-negative finite float: truncation
AsUsize(a) == a[1] \div a[2]

----------------------------------------------------------------------------
(* hash.rs: calculate_hash, FNV-1a (hash32::FnvHasher) over the derived     *)
(* Hash of PeakPair: three usize fields, each written as its native bytes  *)

Half == 2^16
Byte == 2^8
UsizeBytes == 8

FnvOffsetBasis == <<33052, 40389>>    \* 0x811c_9dc5
FnvPrime == <<256, 403>>              \* 0x0100_0193

RECURSIVE Xor(_, _, _)
Xor(a, b, bits) ==
    IF bits = 0 THEN 0
    ELSE (((a % 2) + (b % 2)) % 2) + 2 * Xor(a \div 2, b \div 2, bits - 1)

\* state ^= byte; state = state.wrapping_mul(prime)
FnvWriteByte(state, byte) ==
    LET lo == (state[2] \div Byte) * Byte + Xor(state[2] % Byte, byte, 8)
        hi == state[1]
        p  == lo * FnvPrime[2]
    IN  << (hi * FnvPrime[2] + ((lo * FnvPrime[1]) % Half) + (p \div Half)) % Half,
           p % Half >>

\* Hasher::write_usize: the little-endian bytes of the value
RECURSIVE FnvWriteUsize(_, _, _)
FnvWriteUsize(state, v, n) ==
    IF n = 0 THEN state
    ELSE \* the state after this byte is bound as a value, then the rest is written
         CHOOSE written \in {FnvWriteUsize(next, v \div Byte, n - 1) :
                                next \in {FnvWriteByte(state, v % Byte)}} : TRUE

pair_from_locations(loc_a, loc_b) ==
    [freq_a |-> loc_a[2], freq_b |-> loc_b[2], delta_t |-> loc_b[1] - loc_a[1]]

calculate_hash(pair) ==
    FnvWriteUsize(
        FnvWriteUsize(
            FnvWriteUsize(FnvOffsetBasis, pair.freq_a, UsizeBytes),
            pair.freq_b, UsizeBytes),
        pair.delta_t, UsizeBytes)

----------------------------------------------------------------------------
(* hash.rs: fingerprint *)

\* (target_zone_delay_sec / window_length + target_zone_width_sec / window_length) as usize
TimeBound(p) ==
    AsUsize(RatAdd(RatDiv(p.target_zone_delay_sec, p.window_length),
                   RatDiv(p.target_zone_width_sec, p.window_length)))

\* ((target_zone_height_hz / frequency_resolution) / 2.) as usize,
\* frequency_resolution = 1. / window_length
FreqBound(p) ==
    AsUsize(RatDiv(RatDiv(p.target_zone_height_hz,
                          RatDiv(<<1, 1>>, p.window_length)),
                   <<2, 1>>))

\* an inner loop that also stops at a partner outside the frequency range
\* (not the code's)
RECURSIVE ScanUntilRejected(_, _, _, _)
ScanUntilRejected(peaks, i, j, p) ==
    IF j > Len(peaks) THEN <<>>
    ELSE IF peaks[j][1] - peaks[i][1] > TimeBound(p)
            \/ AbsDiff(peaks[j][2], peaks[i][2]) >= FreqBound(p)
         THEN <<>>
         ELSE << <<peaks[i], peaks[j]>> >> \o ScanUntilRejected(peaks, i, j + 1, p)

\* the inner loop over peak_locations[i + 1..], from position j on
RECURSIVE ScanPartners(_, _, _, _)
ScanPartners(peaks, i, j, p) ==
    IF j > Len(peaks) THEN <<>>
    ELSE IF peaks[j][1] - peaks[i][1] > TimeBound(p)
         THEN <<>>                       \* break: past the end of the target zone
         ELSE (IF AbsDiff(peaks[j][2], peaks[i][2]) < FreqBound(p)
               THEN << <<peaks[i], peaks[j]>> >>
               ELSE <<>>)
              \o ScanPartners(peaks, i, j + 1, p)

\* the outer loop over the anchors, from position i on
RECURSIVE ClosePairsFrom(_, _, _)
ClosePairsFrom(peaks, i, p) ==
    IF i > Len(peaks) THEN <<>>
    ELSE ScanPartners(peaks, i, i + 1, p) \o ClosePairsFrom(peaks, i + 1, p)

close_pairs(peaks, p) == ClosePairsFrom(peaks, 1, p)

\* a map that keeps the first value under a key (not what HashMap::insert does)
MapInsertFirst(m, key, value) ==
    [k \in DOMAIN m \cup {key} |-> IF k \in DOMAIN m THEN m[k] ELSE value]

\* HashMap::insert: a later insert under the same key replaces the value
MapInsert(m, key, value) ==
    [k \in DOMAIN m \cup {key} |-> IF k = key THEN value ELSE m[k]]

EmptyMap == [k \in {} |-> 0]

RECURSIVE InsertRecords(_, _, _)
InsertRecords(records, pairs, n) ==
    IF n > Len(pairs) THEN records
    ELSE LET hash == calculate_hash(pair_from_locations(pairs[n][1], pairs[n][2]))
             record == [hash |-> hash, time_a |-> pairs[n][1][1]]
         IN  InsertRecords(MapInsert(records, hash, record), pairs, n + 1)

fingerprint(peaks, p) == InsertRecords(EmptyMap, close_pairs(peaks, p), 1)

----------------------------------------------------------------------------
(* image_ops.rs: get_square, max_filter, find_equal; main.rs: the threshold *)
(* filter. A spectrogram is [rows, cols, data], data[<<row, col>>].         *)

Cells(rows, cols) == (0 .. rows - 1) \X (0 .. cols - 1)

\* Array2::indexed_iter, the row-major order of the cells
RowMajor(rows, cols) ==
    [i \in 1 .. rows * cols |-> <<(i - 1) \div cols, (i - 1) % cols>>]

SetMax(S) == CHOOSE m \in S : \A v \in S : v <= m

\* the cells of the slice s![min_y..=max_y, min_x..=max_x]; {} stands for None
get_square(spec, x, y, width) ==
    IF x > spec.cols \/ y > spec.rows THEN {}
    ELSE LET min_x == IF x < width \div 2 THEN 0 ELSE x - width \div 2
             max_x == Min(x + width \div 2, spec.cols - 1)
             min_y == IF y < width \div 2 THEN 0 ELSE y - width \div 2
             max_y == Min(y + width \div 2, spec.rows - 1)
         IN  (min_y .. max_y) \X (min_x .. max_x)

max_filter(spec, kernel_size) ==
    [spec EXCEPT !.data =
        [loc \in Cells(spec.rows, spec.cols) |->
            SetMax({spec.data[c] : c \in get_square(spec, loc[2], loc[1], kernel_size)})]]

find_equal(array_a, array_b) ==
    LET Equal(loc) == array_b.data[loc] = array_a.data[loc]
    IN  SelectSeq(RowMajor(array_a.rows, array_a.cols), Equal)

\* a filter that also keeps the cells equal to the threshold (not the code's)
threshold_filter_inclusive(windows, peak_locations, magnitude_threshold) ==
    LET AtLeast(loc) == windows.data[loc] >= magnitude_threshold
    IN  SelectSeq(peak_locations, AtLeast)

\* .filter(|&&loc| *windows.get(loc).unwrap() > magnitude_threshold)
threshold_filter(windows, peak_locations, magnitude_threshold) ==
    LET Above(loc) == windows.data[loc] > magnitude_threshold
    IN  SelectSeq(peak_locations, Above)

\* main.rs: add_file / match_sample, from the spectrogram to the peak list
max_peak_locations(windows, kernel_size, magnitude_threshold) ==
    threshold_filter(windows,
                     find_equal(windows, max_filter(windows, kernel_size)),
                     magnitude_threshold)

----------------------------------------------------------------------------
(* audio_ops.rs: read_wav_to_fft, the shape of its result.                  *)
(* overflow_checks is the build profile: with it, usize arithmetic that    *)
(* overflows panics; without it, it wraps.                                 *)

\* wav.samples().step_by(channels): the number of samples kept
SelectedSamples(total_samples, channels) ==
    Cardinality({i \in 0 .. total_samples - 1 : i % channels = 0})

\* (sample_rate as f32 * window_length) as usize
WindowSize(sample_rate, window_length) ==
    AsUsize(RatMul(<<sample_rate, 1>>, window_length))

\* (window_size as f64 * (1f64 - WINDOW_OVERLAP)) as usize, WINDOW_OVERLAP = 0.0
SkipSize(window_size) == AsUsize(RatMul(<<window_size, 1>>, <<1, 1>>))

\* every window of the signal, as windows() yields them before step_by
AllWindowStarts(n, size, skip) == 0 .. n - size

\* samples_array.windows(window_size).into_iter().step_by(skip_size):
\* the start index of every window that is kept
WindowStarts(n, size, skip) ==
    {s \in 0 .. n - size : s % skip = 0}

read_wav_to_fft(total_samples, channels, sample_rate, window_length, overflow_checks) ==
    LET num_samples == SelectedSamples(total_samples, channels)
        window_size == WindowSize(sample_rate, window_length)
        skip_size   == SkipSize(window_size)
    IN  IF skip_size = 0
        THEN [status |-> "panic", at |-> "num_windows: division by zero"]
        ELSE IF num_samples \div skip_size = 0 /\ overflow_checks
        THEN [status |-> "panic", at |-> "num_windows: subtraction overflow"]
        ELSE IF window_size > num_samples
        THEN [status |-> "error", at |-> "stack: no windows"]
        ELSE [status |-> "ok",
              rows |-> Cardinality(WindowStarts(num_samples, window_size, skip_size)),
              \* windows.slice_move(s![.., ..((window_size / 2) + 1)])
              cols |-> Cardinality({k \in 0 .. window_size - 1 :
                                        k < (window_size \div 2) + 1})]

----------------------------------------------------------------------------
(* The store at rest, for the runs of a single pipeline stage *)

NoOutcome == [op |-> "none"]

NoStore ==
    /\ tracks = {}
    /\ fingerprints = EmptyBag
    /\ outcome = NoOutcome
    /\ added = Idle

----------------------------------------------------------------------------
(* Runs of hash::fingerprint alone *)

WindowLengths == {<<1, 10>>, <<1, 5>>}
ZoneDelays == {<<0, 1>>, <<1, 10>>}
ZoneWidths == {<<0, 1>>, <<3, 10>>}
ZoneHeights == {<<0, 1>>, <<20, 1>>, <<40, 1>>}

ZoneParams ==
    [window_length : WindowLengths,
     target_zone_delay_sec : ZoneDelays,
     target_zone_height_hz : ZoneHeights,
     target_zone_width_sec : ZoneWidths]

\* peak lists as find_equal and the threshold filter hand them over: distinct
\* cells in row-major order
PeakLists ==
    {LET Picked(loc) == loc \in S
     IN  SelectSeq(RowMajor(HashRows, HashCols), Picked) :
        S \in {T \in SUBSET Cells(HashRows, HashCols) : Cardinality(T) <= MaxPeaks}}

InitHash ==
    /\ NoStore
    /\ stft = Idle
    /\ picker = Idle
    /\ hasher \in [pc : {"call"}, peak_locations : PeakLists, params : ZoneParams,
                   close_pairs : {<<>>}, records : {EmptyMap}]

Fingerprint ==
    /\ hasher.pc = "call"
    /\ hasher' = [hasher EXCEPT
                    !.pc = "done",
                    !.close_pairs = close_pairs(hasher.peak_locations, hasher.params),
                    !.records = fingerprint(hasher.peak_locations, hasher.params)]
    /\ UNCHANGED <<tracks, fingerprints, outcome, added, stft, picker>>

NextHash == Fingerprint

SpecHash == InitHash /\ [][NextHash]_vars

\* the hash of the n-th enumerated pair of a finished run
PairHash(n) ==
    calculate_hash(pair_from_locations(hasher.close_pairs[n][1],
                                       hasher.close_pairs[n][2]))

\* floor((delay_sec + width_sec) / wl)
ZoneTimeLimit(p) ==
    AsUsize(RatDiv(RatAdd(p.target_zone_delay_sec, p.target_zone_width_sec),
                   p.window_length))

\* floor((height_hz / delta_f) / 2), delta_f = 1 / wl
ZoneFreqLimit(p) ==
    AsUsize(RatDiv(RatDiv(p.target_zone_height_hz, RatDiv(<<1, 1>>, p.window_length)),
                   <<2, 1>>))

\* C5: every pair (a, b) that fingerprint() hashes has b.t > a.t strictly,
\* b.t - a.t <= floor((delay_sec + width_sec) / wl) and
\* |b.k - a.k| < floor((height_hz / delta_f) / 2); no pair of two peaks of the
\* same spectrogram row is hashed.
C5_TargetZone ==
    hasher.pc = "done" =>
        \A n \in DOMAIN hasher.close_pairs :
            LET a == hasher.close_pairs[n][1]
                b == hasher.close_pairs[n][2]
            IN  /\ b[1] > a[1]
                /\ b[1] - a[1] <= ZoneTimeLimit(hasher.params)
                /\ AbsDiff(b[2], a[2]) < ZoneFreqLimit(hasher.params)

\* C5, the two upper limits alone: every hashed pair (a, b) has a before b in
\* the peak list, b.t - a.t within the time limit and |b.k - a.k| under the
\* frequency limit.
C5_ZoneLimits ==
    hasher.pc = "done" =>
        \A n \in DOMAIN hasher.close_pairs :
            LET a == hasher.close_pairs[n][1]
                b == hasher.close_pairs[n][2]
            IN  /\ b[1] >= a[1]
                /\ b[1] - a[1] <= ZoneTimeLimit(hasher.params)
                /\ AbsDiff(b[2], a[2]) < ZoneFreqLimit(hasher.params)

\* the index pairs i < j of a peak list within the time and frequency bounds
AdmissiblePairs(P, p) ==
    {ij \in (DOMAIN P) \X (DOMAIN P) :
        /\ ij[1] < ij[2]
        /\ P[ij[2]][1] - P[ij[1]][1] <= ZoneTimeLimit(p)
        /\ AbsDiff(P[ij[2]][2], P[ij[1]][2]) < ZoneFreqLimit(p)}

\* C12: for a peak list in row-major order the pairs fingerprint() enumerates
\* are exactly the pairs (P[i], P[j]), i < j, within the time bound and the
\* frequency bound, each once: the break skips no admissible later partner
\* and a frequency-rejected partner does not stop the scan.
C12_EarlyTerminationComplete ==
    hasher.pc = "done" =>
        LET P == hasher.peak_locations
            admissible == AdmissiblePairs(P, hasher.params)
        IN  /\ {hasher.close_pairs[n] : n \in DOMAIN hasher.close_pairs}
                   = {<<P[ij[1]], P[ij[2]]>> : ij \in admissible}
            /\ Len(hasher.close_pairs) = Cardinality(admissible)

\* C12 witness: a finished run in which one anchor has a partner rejected by
\* frequency, a later partner that is paired with it, and a still later peak
\* past the time bound, where its scan breaks.
C12_RejectedThenPaired ==
    /\ hasher.pc = "done"
    /\ \E i, j, k, m \in DOMAIN hasher.peak_locations :
           LET P == hasher.peak_locations
           IN  /\ i < j /\ j < k /\ k < m
               /\ <<i, j>> \notin AdmissiblePairs(P, hasher.params)
               /\ P[j][1] - P[i][1] <= ZoneTimeLimit(hasher.params)
               /\ \E n \in DOMAIN hasher.close_pairs :
                      hasher.close_pairs[n] = <<P[i], P[k]>>
               /\ P[m][1] - P[i][1] > ZoneTimeLimit(hasher.params)

\* C8: the map fingerprint() returns has exactly one entry per distinct hash of
\* the enumerated pairs; the record kept under a hash has the anchor time of
\* the last pair, in enumeration order, with that hash; every record's hash
\* field is its key.
C8_LastWriteWins ==
    hasher.pc = "done" =>
        LET pairs  == DOMAIN hasher.close_pairs
            hashed == {<<n, PairHash(n)>> : n \in pairs}
            Last(h) == SetMax({e[1] : e \in {d \in hashed : d[2] = h}})
        IN  /\ DOMAIN hasher.records = {e[2] : e \in hashed}
            /\ \A h \in DOMAIN hasher.records :
                   /\ hasher.records[h].hash = h
                   /\ hasher.records[h].time_a = hasher.close_pairs[Last(h)][1][1]

\* C8 witness: a finished run in which two pairs with different anchor times
\* have the same hash.
C8_Collision ==
    /\ hasher.pc = "done"
    /\ \E m, n \in DOMAIN hasher.close_pairs :
           /\ m < n
           /\ PairHash(m) = PairHash(n)
           /\ hasher.close_pairs[m][1][1] # hasher.close_pairs[n][1][1]

----------------------------------------------------------------------------
(* Runs of the peak picker alone *)

Spectrograms ==
    UNION {[rows : {r}, cols : {c}, data : [Cells(r, c) -> 0 .. MaxVal]] :
              <<r, c>> \in {d \in (1 .. MaxCells) \X (1 .. MaxCells) :
                                d[1] * d[2] <= MaxCells}}

InitPeaks ==
    /\ NoStore
    /\ stft = Idle
    /\ hasher = Idle
    /\ picker \in [pc : {"call"}, windows : Spectrograms,
                   kernel_size : 1 .. MaxKernel,
                   magnitude_threshold : -1 .. MaxVal,
                   filtered : {Idle}, max_peak_locations : {<<>>}]

PickPeaks ==
    /\ picker.pc = "call"
    /\ picker' = [picker EXCEPT
                    !.pc = "done",
                    !.filtered = max_filter(picker.windows, picker.kernel_size),
                    !.max_peak_locations =
                        max_peak_locations(picker.windows, picker.kernel_size,
                                           picker.magnitude_threshold)]
    /\ UNCHANGED <<tracks, fingerprints, outcome, added, stft, hasher>>

NextPeaks == PickPeaks

SpecPeaks == InitPeaks /\ [][NextPeaks]_vars

\* the cells of rows [max(0, t - kernel_size/2), min(rows - 1, t + kernel_size/2)]
\* and columns [max(0, k - kernel_size/2), min(cols - 1, k + kernel_size/2)]
KernelWindow(S, t, k, kernel_size) ==
    {c \in Cells(S.rows, S.cols) :
        /\ c[1] >= Max(0, t - kernel_size \div 2)
        /\ c[1] <= Min(S.rows - 1, t + kernel_size \div 2)
        /\ c[2] >= Max(0, k - kernel_size \div 2)
        /\ c[2] <= Min(S.cols - 1, k + kernel_size \div 2)}

IsLocalPeak(S, loc, kernel_size, magnitude_threshold) ==
    /\ \A c \in KernelWindow(S, loc[1], loc[2], kernel_size) : S.data[c] <= S.data[loc]
    /\ S.data[loc] > magnitude_threshold

\* C9: the peaks handed to the hasher are exactly the cells (t, k) whose value
\* is the maximum of the kernel window around them, truncated at the edges,
\* and is above magnitude_threshold; every cell of a tie is among them.
C9_PeakLocalization ==
    picker.pc = "done" =>
        {picker.max_peak_locations[i] : i \in DOMAIN picker.max_peak_locations}
            = {loc \in Cells(picker.windows.rows, picker.windows.cols) :
                  IsLocalPeak(picker.windows, loc, picker.kernel_size,
                              picker.magnitude_threshold)}

\* C9 witness: a finished run with two tied peaks in one kernel window that is
\* truncated at an edge, and a local maximum rejected by the threshold.
C9_TiedPeaks ==
    /\ picker.pc = "done"
    /\ picker.kernel_size >= 2
    /\ \E i, j \in DOMAIN picker.max_peak_locations :
           /\ i # j
           /\ picker.max_peak_locations[j]
                  \in KernelWindow(picker.windows, picker.max_peak_locations[i][1],
                                   picker.max_peak_locations[i][2], picker.kernel_size)
           /\ Cardinality(KernelWindow(picker.windows, picker.max_peak_locations[i][1],
                                       picker.max_peak_locations[i][2],
                                       picker.kernel_size))
                  < (2 * (picker.kernel_size \div 2) + 1) ^ 2
    /\ \E loc \in Cells(picker.windows.rows, picker.windows.cols) :
           /\ picker.filtered.data[loc] = picker.windows.data[loc]
           /\ picker.windows.data[loc] = picker.magnitude_threshold

----------------------------------------------------------------------------
(* Runs of read_wav_to_fft alone *)

InitStft ==
    /\ NoStore
    /\ picker = Idle
    /\ hasher = Idle
    /\ stft \in [pc : {"call"}, total_samples : 0 .. MaxSamples, channels : {1, 2},
                 sample_rate : 0 .. MaxRate, window_length : WindowLengths,
                 overflow_checks : BOOLEAN, result : {Idle}]

ReadWavToFft ==
    /\ stft.pc = "call"
    /\ stft' = [stft EXCEPT
                  !.pc = "done",
                  !.result = read_wav_to_fft(stft.total_samples, stft.channels,
                                             stft.sample_rate, stft.window_length,
                                             stft.overflow_checks)]
    /\ UNCHANGED <<tracks, fingerprints, outcome, added, picker, hasher>>

NextStft == ReadWavToFft

SpecStft == InitStft /\ [][NextStft]_vars

C11_InputError ==
    LET N == SelectedSamples(stft.total_samples, stft.channels)
        w == WindowSize(stft.sample_rate, stft.window_length)
    IN  (stft.pc = "done" /\ (w > N \/ stft.sample_rate = 0)) =>
            stft.result.status = "error"

\* C11, the builds without overflow checks and the files with a window of at
\* least one sample: there a clip shorter than one window does get the error.
C11_ShortClipWrapping ==
    LET N == SelectedSamples(stft.total_samples, stft.channels)
        w == WindowSize(stft.sample_rate, stft.window_length)
    IN  (stft.pc = "done" /\ w > N /\ w >= 1 /\ ~stft.overflow_checks) =>
            stft.result.status = "error"

----------------------------------------------------------------------------
(* database.rs: the two tables and add_track *)

MaxId(rows) == IF rows = {} THEN 0 ELSE SetMax({r.id : r \in rows})
MinId(rows) == CHOOSE i \in {r.id : r \in rows} : \A r \in rows : i <= r.id

\* an add_track that inserts without looking the title up (not the code's)
insert_track_always(rows, title) ==
    [tracks |-> rows \cup {[id |-> MaxId(rows) + 1, title |-> title]},
     id |-> MaxId(rows) + 1]

\* SELECT rowid from tracks WHERE title = (?); on no row INSERT INTO tracks (title)
\* and last_insert_rowid(). id INTEGER PRIMARY KEY: the largest id plus one.
add_track(rows, title) ==
    LET found == {r \in rows : r.title = title}
    IN  IF found # {}
        THEN [tracks |-> rows, id |-> MinId(found)]
        ELSE [tracks |-> rows \cup {[id |-> MaxId(rows) + 1, title |-> title]},
              id |-> MaxId(rows) + 1]

----------------------------------------------------------------------------
(* main.rs: the fingerprint transaction of add_file *)

\* the rows of a table that are among the given ones
Restrict(table, rows) == [r \in rows |-> table[r]]

RowCount(table) == BagCardinality(table)

\* a delete without its WHERE clause (not the code's)
delete_every_row(table, id) == EmptyBag

\* a delete that removes no row (not the code's)
delete_nothing(table, id) == table

\* DELETE FROM fingerprints WHERE track_id = (?1)
delete_fingerprints(table, id) ==
    Restrict(table, {r \in DOMAIN table : r.track_id # id})

\* INSERT INTO fingerprints (hash, track_time, track_id), once per given key
insert_fingerprints(table, records, keys, id) ==
    table (+) SetToBag({[hash |-> h,
                         track_time |-> records[h].time_a,
                         track_id |-> id] : h \in keys})

\* a transaction whose writes stay when it is dropped (not rusqlite's)
keep_writes(before, working, committed) == working

\* the end of the transaction: transaction.commit(), or the drop of an
\* uncommitted rusqlite Transaction on an early return, which rolls back
finish_transaction(before, working, committed) ==
    IF committed THEN working ELSE before

----------------------------------------------------------------------------
(* main.rs: add_file and match_sample, and the files they are run on *)

\* Args: the default_value_t of every analysis parameter
DefaultParams ==
    [window_length |-> <<1, 10>>,
     kernel_size |-> 30,
     magnitude_threshold |-> 0,
     target_zone_delay_sec |-> <<1, 10>>,
     target_zone_height_hz |-> <<750, 1>>,
     target_zone_width_sec |-> <<3, 1>>]

\* file stems
Titles == {"a", "b"}

\* the wav files: mono, 4 samples at 10 Hz, so that with the default
\* window_length the windows are one sample long
ClipFile == [total_samples |-> 4, channels |-> 1, sample_rate |-> 10]
Clips == [1 .. ClipFile.total_samples -> {0, 1}]

\* cos(2 pi n k / size) for the sizes whose DFT is integral: 1, 2 and 4
CosTurn(nk, size) ==
    LET quarter == (nk * (4 \div size)) % 4
    IN  IF quarter = 0 THEN 1 ELSE IF quarter = 2 THEN -1 ELSE 0

RECURSIVE DftReal(_, _, _)
\* the real part of bin k of the forward DFT of a window, summed from sample n on
DftReal(window, k, n) ==
    IF n > Len(window) THEN 0
    ELSE window[n] * CosTurn((n - 1) * k, Len(window)) + DftReal(window, k, n + 1)

\* read_wav_to_fft with its values, for window sizes 1, 2 and 4
Spectrogram(samples, file, p) ==
    LET \* wav.samples().step_by(channels): the positions of the samples kept
        kept  == [i \in 1 .. SelectedSamples(Len(samples), file.channels) |->
                    (i - 1) * file.channels + 1]
        size  == WindowSize(file.sample_rate, p.window_length)
        shape == read_wav_to_fft(Len(samples), file.channels, file.sample_rate,
                                 p.window_length, FALSE)
    IN  [rows |-> shape.rows,
         cols |-> shape.cols,
         data |-> [loc \in Cells(shape.rows, shape.cols) |->
                     DftReal([n \in 1 .. size |->
                                samples[kept[loc[1] * SkipSize(size) + n]]],
                             loc[2], 1)]]

\* add_file / match_sample up to hash::fingerprint
pair_records_of(samples, file, p) ==
    fingerprint(max_peak_locations(Spectrogram(samples, file, p),
                                   p.kernel_size, p.magnitude_threshold), p)

\* what add_file and match_sample compute from each clip, evaluated once
ClipTable == {<<samples, pair_records_of(samples, ClipFile, DefaultParams)>> : samples \in Clips}

ClipRecords(samples) == (CHOOSE entry \in ClipTable : entry[1] = samples)[2]

RECURSIVE SumHalf(_, _)
SumHalf(keys, half) ==
    IF keys = {} THEN 0
    ELSE LET k == CHOOSE x \in keys : TRUE
         IN  k[half] + SumHalf(keys \ {k}, half)

\* let sum: u32 = pair_records.keys().sum();  does the sum pass 2^32 - 1
KeysSumOverflows(hashes) ==
    SumHalf(hashes, 1) + (SumHalf(hashes, 2) \div Half) >= Half

Faults == {"none", "overflow", "begin", "delete", "insert", "commit"}

add_file(title, samples, fault, done) ==
    LET track        == add_track(tracks, title)
        track_id     == track.id
        pair_records == ClipRecords(samples)
        keys         == DOMAIN pair_records
        deleted      == IF fault \in {"overflow", "begin", "delete"}
                        THEN fingerprints
                        ELSE delete_fingerprints(fingerprints, track_id)
        working      == insert_fingerprints(deleted, pair_records, done, track_id)
        committed    == fault = "none"
    IN  \* a build with overflow checks panics on the sum of the keys
        /\ fault = "overflow" => KeysSumOverflows(keys)
        /\ fault \in {"overflow", "begin", "delete"} => done = {}
        /\ fault = "insert" => done # keys
        /\ fault \in {"none", "commit"} => done = keys
        /\ tracks' = track.tracks
        /\ fingerprints' = finish_transaction(fingerprints, working, committed)
        /\ outcome' = [op |-> "add",
                       title |-> title,
                       track_id |-> track_id,
                       status |-> IF committed THEN "ok"
                                  ELSE IF fault = "overflow" THEN "panic" ELSE "error",
                       fault |-> fault,
                       deleted |-> RowCount(fingerprints) - RowCount(deleted),
                       inserted |-> Cardinality(done),
                       pair_records |-> IF committed THEN pair_records ELSE EmptyMap]
        /\ added' = IF committed
                     THEN [added EXCEPT ![title] = [present |-> TRUE,
                                                    pair_records |-> pair_records]]
                     ELSE added
        /\ UNCHANGED <<stft, picker, hasher>>

AddFile ==
    \E title \in Titles, samples \in Clips, fault \in Faults :
        \E done \in SUBSET DOMAIN ClipRecords(samples) :
            add_file(title, samples, fault, done)


\* SELECT DISTINCT track_id FROM fingerprints WHERE hash IN rarray(?1)
candidate_ids(table, hashes) ==
    {r.track_id : r \in {x \in DOMAIN table : x.hash \in hashes}}

\* SELECT id, title FROM tracks WHERE id IN rarray(?1), read in rowid order
RECURSIVE ById(_)
ById(rows) ==
    IF rows = {} THEN <<>>
    ELSE LET first == CHOOSE r \in rows : r.id = MinId(rows)
         IN  <<first>> \o ById(rows \ {first})

candidate_tracks(rows, ids) == ById({r \in rows : r.id \in ids})

\* SELECT hash, track_time FROM fingerprints WHERE track_id = (?1) AND hash IN rarray(?2)
track_times(table, id, hashes) ==
    Restrict(table, {r \in DOMAIN table : r.track_id = id /\ r.hash \in hashes})

\* the histogram of track_time - sample_time over the rows with
\* track_time >= sample_time
time_bins(track_rows, records) ==
    LET Offset(r) == r.track_time - records[r.hash].time_a
        kept == {r \in DOMAIN track_rows : r.track_time >= records[r.hash].time_a}
    IN  [o \in {Offset(r) : r \in kept} |->
            RowCount(Restrict(track_rows, {r \in kept : Offset(r) = o}))]

\* every order a HashMap may be iterated in
RECURSIVE Orders(_)
Orders(S) ==
    IF S = {} THEN {<<>>}
    ELSE UNION {{<<x>> \o o : o \in Orders(S \ {x})} : x \in S}

\* Iterator::max_by_key(|entry| entry.1) over the bins in the given order:
\* of several maxima the last one is returned; <<>> stands for None
RECURSIVE MaxByKeyFrom(_, _, _, _)
MaxByKeyFrom(histogram, order, n, best) ==
    IF n > Len(order) THEN best
    ELSE MaxByKeyFrom(histogram, order, n + 1,
                      IF histogram[order[n]] >= histogram[best] THEN order[n] ELSE best)

max_by_key(histogram, order) ==
    IF order = <<>> THEN <<>> ELSE <<MaxByKeyFrom(histogram, order, 2, order[1])>>

\* the line printed for one candidate
result_line(info, histogram, best_offset, p) ==
    [track_id |-> info.id,
     title |-> info.title,
     hash_match_count |-> Cardinality(DOMAIN histogram),
     count |-> histogram[best_offset],
     best_offset |-> best_offset,
     best_offset_time |-> AsUsize(RatMul(<<best_offset, 1>>, p.window_length))]

\* the loop over candidate_tracks from position n on: every run it can take,
\* as [lines printed, whether it ended in the unwrap of a None]
RECURSIVE MatchRuns(_, _, _, _)

\* the end of one iteration: unwrap of the best bin, the line, the next candidate
ScoreCandidate(candidates, n, query, p, histogram, best) ==
    IF best = <<>>
    THEN {[lines |-> <<>>, panicked |-> TRUE]}
    ELSE {[lines |-> <<result_line(candidates[n], histogram, best[1], p)>> \o rest.lines,
           panicked |-> rest.panicked] :
             rest \in MatchRuns(candidates, n + 1, query, p)}

\* one iteration, given the histogram of its candidate
BinCandidate(candidates, n, query, p, histogram) ==
    UNION {ScoreCandidate(candidates, n, query, p, histogram,
                          max_by_key(histogram, order)) :
             order \in Orders(DOMAIN histogram)}

MatchRuns(candidates, n, query, p) ==
    IF n > Len(candidates) THEN {[lines |-> <<>>, panicked |-> FALSE]}
    ELSE BinCandidate(candidates, n, query, p,
                      time_bins(track_times(fingerprints, candidates[n].id, DOMAIN query),
                                query))

match_sample(samples, run) ==
    /\ outcome' = [op |-> "match",
                   pair_records |-> ClipRecords(samples),
                   status |-> IF run.panicked THEN "panic" ELSE "ok",
                   lines |-> run.lines]
    /\ UNCHANGED <<tracks, fingerprints, added, stft, picker, hasher>>

MatchSample ==
    \E samples \in Clips :
        \E run \in MatchRuns(
                       candidate_tracks(tracks,
                           candidate_ids(fingerprints, DOMAIN ClipRecords(samples))),
                       1, ClipRecords(samples), DefaultParams) :
            match_sample(samples, run)

Init ==
    /\ tracks = {}
    /\ fingerprints = EmptyBag
    /\ outcome = NoOutcome
    /\ added = [t \in Titles |-> [present |-> FALSE, pair_records |-> EmptyMap]]
    /\ stft = Idle
    /\ picker = Idle
    /\ hasher = Idle

Next == AddFile \/ MatchSample

Spec == Init /\ [][Next]_vars

----------------------------------------------------------------------------
(* Properties of the two commands *)

\* the fingerprint rows of one track
TrackRows(table, id) == Restrict(table, {r \in DOMAIN table : r.track_id = id})

\* one row (r.hash, r.time_a, id) per record r of a map
RowsOf(records, id) ==
    SetToBag({[hash |-> records[h].hash,
               track_time |-> records[h].time_a,
               track_id |-> id] : h \in DOMAIN records})

\* C1: after add_file commits the replacement for track T with record map R,
\* the multiset of (hash, track_time) over the rows with track_id = T is
\* exactly {(r.hash, r.time_a) : r in R}: no earlier row of T survives, no
\* record of R is missing or duplicated.
C1_ReplaceSemantics ==
    (outcome.op = "add" /\ outcome.status = "ok") =>
        TrackRows(fingerprints, outcome.track_id)
            = RowsOf(outcome.pair_records, outcome.track_id)

\* C1 witness: a committed add that deleted rows of an earlier version of its
\* track and inserted new ones, next to the rows of another track.
C1_Replaced ==
    /\ outcome.op = "add"
    /\ outcome.status = "ok"
    /\ outcome.deleted > 0
    /\ outcome.inserted > 0
    /\ \E r \in DOMAIN fingerprints : r.track_id # outcome.track_id

\* C2: when the clip a title was last added with (record map Q, not empty) is
\* matched, whatever other titles were added since, the title is among the
\* results, its best offset is 0 and its count is |Q|.
C2_SelfMatch ==
    \A t \in Titles :
        (/\ outcome.op = "match"
         /\ added[t].present
         /\ added[t].pair_records = outcome.pair_records
         /\ outcome.pair_records # EmptyMap)
        => \E i \in DOMAIN outcome.lines :
               /\ outcome.lines[i].title = t
               /\ outcome.lines[i].best_offset = 0
               /\ outcome.lines[i].count = Cardinality(DOMAIN outcome.pair_records)

\* C2, the runs of match_sample that complete: they do report the title at
\* offset 0 with count |Q|.
C2_SelfMatchCompleted ==
    \A t \in Titles :
        (/\ outcome.op = "match"
         /\ outcome.status = "ok"
         /\ added[t].present
         /\ added[t].pair_records = outcome.pair_records
         /\ outcome.pair_records # EmptyMap)
        => \E i \in DOMAIN outcome.lines :
               /\ outcome.lines[i].title = t
               /\ outcome.lines[i].best_offset = 0
               /\ outcome.lines[i].count = Cardinality(DOMAIN outcome.pair_records)

\* no two rows of tracks share a title or an id
TitlesUnique ==
    \A r1, r2 \in tracks : (r1.title = r2.title \/ r1.id = r2.id) => r1 = r2

\* what add_file's call of add_track does to tracks, and the id it returns
AddTrackStep ==
    outcome'.op = "add" =>
        IF \E r \in tracks : r.title = outcome'.title
        THEN /\ tracks' = tracks
             /\ [id |-> outcome'.track_id, title |-> outcome'.title] \in tracks
        ELSE /\ tracks' = tracks \cup {[id |-> outcome'.track_id, title |-> outcome'.title]}
             /\ \A r \in tracks : r.id # outcome'.track_id

C4_AllOrNothing ==
    [][(outcome'.op = "add" /\ outcome'.fault \in {"delete", "insert"}) =>
           TrackRows(fingerprints', outcome'.track_id)
               = TrackRows(fingerprints, outcome'.track_id)]_vars

\* C4 witness: an add that failed at an insert, after its delete removed rows
\* and some inserts succeeded; the track still has rows.
C4_FailedInsert ==
    /\ outcome.op = "add"
    /\ outcome.status = "error"
    /\ outcome.fault = "insert"
    /\ outcome.deleted > 0
    /\ outcome.inserted > 0
    /\ TrackRows(fingerprints, outcome.track_id) # EmptyBag

\* the fingerprint rows of all tracks but one
OtherRows(table, id) == Restrict(table, {r \in DOMAIN table : r.track_id # id})

\* C13: an add_file run for title T, successful or failed, leaves every
\* fingerprint row of another track and every track row that existed
\* unchanged; it adds at most one track row, the one for T.
C13_AddFrame ==
    [][outcome'.op = "add" =>
           /\ OtherRows(fingerprints', outcome'.track_id)
                  = OtherRows(fingerprints, outcome'.track_id)
           /\ tracks \subseteq tracks'
           /\ tracks' \ tracks
                  \subseteq {[id |-> outcome'.track_id, title |-> outcome'.title]}]_vars

\* C13 witness: a committed add for the second track that replaced rows of
\* its own while the first track has rows.
C13_OtherTrackKept ==
    /\ outcome.op = "add"
    /\ outcome.status = "ok"
    /\ outcome.track_id = 2
    /\ outcome.deleted > 0
    /\ TrackRows(fingerprints, 2) # EmptyBag
    /\ OtherRows(fingerprints, 2) # EmptyBag

\* the histogram match_sample builds for one track of the store
HistogramOf(id) ==
    time_bins(track_times(fingerprints, id, DOMAIN outcome.pair_records),
              outcome.pair_records)

\* C6: for each candidate the reported count is the maximum bin count of its
\* histogram and the reported best_offset is the lowest offset among the bins
\* with that count.
C6_TieBreak ==
    outcome.op = "match" =>
        \A i \in DOMAIN outcome.lines :
            LET bins == HistogramOf(outcome.lines[i].track_id)
                top  == SetMax({bins[o] : o \in DOMAIN bins})
            IN  /\ outcome.lines[i].count = top
                /\ \A o \in DOMAIN bins :
                       bins[o] = top => outcome.lines[i].best_offset <= o

\* C6, the count alone: for each candidate the reported count is the maximum
\* bin count of its histogram, at the reported best_offset.
C6_MaxCount ==
    outcome.op = "match" =>
        \A i \in DOMAIN outcome.lines :
            LET bins == HistogramOf(outcome.lines[i].track_id)
            IN  /\ outcome.lines[i].best_offset \in DOMAIN bins
                /\ outcome.lines[i].count = bins[outcome.lines[i].best_offset]
                /\ \A o \in DOMAIN bins : bins[o] <= outcome.lines[i].count

\* C7: match_sample completes without failure and emits exactly one result
\* for every track with a fingerprint row whose hash is in the query.
C7_OneResultPerCandidate ==
    outcome.op = "match" =>
        LET candidates == candidate_ids(fingerprints, DOMAIN outcome.pair_records)
        IN  /\ outcome.status = "ok"
            /\ Len(outcome.lines) = Cardinality(candidates)
            /\ {outcome.lines[i].track_id : i \in DOMAIN outcome.lines} = candidates

====
